---- MODULE Spec2Model ----
(***************************************************************************)
(* Model of ammo.py, the Automated Monthly Music Organiser.                *)
(*                                                                         *)
(* Every function of ammo.py is one action that runs a whole call: it      *)
(* draws the arguments and the answers of the outside world (the clock,    *)
(* the HTTP response, the Spotify client's responses) from bounded sets    *)
(* and records what the call did: the remote calls it issued, in order     *)
(* (calls), the texts it printed, in order (out), and how it ended         *)
(* (result: a return with its value, a raised exception with its message,  *)
(* or a process exit with its status). locals holds the local values of    *)
(* the call that the properties speak of, and ncalls counts the calls made *)
(* so far.                                                                 *)
(*                                                                         *)
(* Python values: an optional value is None (the empty tuple) or Some(x)   *)
(* (a one-element tuple); str is a TLA+ string; a list is a sequence; a    *)
(* datetime.date is a record [year, month, day].                           *)
(***************************************************************************)
EXTENDS Integers, Sequences, FiniteSets, TLC

VARIABLES pc, op, args, calls, out, result, locals, ncalls

vars == <<pc, op, args, calls, out, result, locals, ncalls>>

-----------------------------------------------------------------------------
(* Bounds of the model *)

FirstYear == 2023
NumYears == 2
MaxPlaylists == 2
MaxTracks == 3
MaxExtra == 2
MinStatus == 100
MaxStatus == 599
MaxCalls == 3

-----------------------------------------------------------------------------
(* Python values *)

None == <<>>
Some(x) == <<x>>

\* str.startswith / str.endswith / the substring test `t in s`
StartsWith(s, p) == Len(p) <= Len(s) /\ SubSeq(s, 1, Len(p)) = p
EndsWith(s, p) == Len(p) <= Len(s) /\ SubSeq(s, Len(s) - Len(p) + 1, Len(s)) = p
Contains(s, t) == \E i \in 1..(Len(s) - Len(t) + 1) : SubSeq(s, i, i + Len(t) - 1) = t

\* How a call ends.
Returned(v) == [kind |-> "return", value |-> v]
Raised(e, m) == [kind |-> "raise", exc |-> e, msg |-> m]
Exited(c) == [kind |-> "exit", code |-> c]

\* What a call did: remote calls issued, texts printed, how it ended.
Outcome(c, o, r) == [calls |-> c, out |-> o, result |-> r]

-----------------------------------------------------------------------------
(* datetime.date *)

Years == FirstYear..(FirstYear + NumYears - 1)

IsLeap(y) == (y % 4 = 0 /\ y % 100 # 0) \/ y % 400 = 0

DaysInMonth(y, m) ==
    IF m = 2 THEN (IF IsLeap(y) THEN 29 ELSE 28)
    ELSE IF m \in {4, 6, 9, 11} THEN 30 ELSE 31

\* Every valid calendar date of the modelled years.
Dates ==
    {d \in [year : Years, month : 1..12, day : 1..31] :
        d.day <= DaysInMonth(d.year, d.month)}

\* date.replace(year=y, month=m): the day is kept, and a day the target month
\* does not have raises ValueError (None here).
Replace(d, y, m) ==
    IF d.day <= DaysInMonth(y, m)
    THEN Some([year |-> y, month |-> m, day |-> d.day])
    ELSE None

MonthAbbr ==
    <<"Jan", "Feb", "Mar", "Apr", "May", "Jun",
      "Jul", "Aug", "Sep", "Oct", "Nov", "Dec">>

MonthFull ==
    <<"January", "February", "March", "April", "May", "June",
      "July", "August", "September", "October", "November", "December">>

\* date.strftime('%b %Y') and date.strftime('%B %Y')
StrftimeShort(d) == MonthAbbr[d.month] \o " " \o ToString(d.year)
StrftimeLong(d) == MonthFull[d.month] \o " " \o ToString(d.year)

-----------------------------------------------------------------------------
(* generate_playlist_name *)

MonthFormats == {"short", "long", "medium"}

\* A mutant of PlaylistDate: the January branch keeps the year.
PlaylistDateKeepsYear(ending_date) ==
    IF ending_date.month = 1
    THEN Replace(ending_date, ending_date.year, 12)
    ELSE Replace(ending_date, ending_date.year, ending_date.month - 1)

\* The playlist's start date: ending_date moved one month back (None when
\* date.replace raises).
PlaylistDate(ending_date) ==
    IF ending_date.month = 1
    THEN Replace(ending_date, ending_date.year - 1, 12)
    ELSE Replace(ending_date, ending_date.year, ending_date.month - 1)

\* The body of generate_playlist_name once the ending date is known.
PlaylistName(ending_date, month_format) ==
    LET playlist_date == PlaylistDate(ending_date) IN
    IF playlist_date = None
    THEN Raised("ValueError", "day is out of range for month")
    ELSE IF month_format = "short"
         THEN Returned(StrftimeShort(playlist_date[1]))
         ELSE Returned(StrftimeLong(playlist_date[1]))

\* The date a function works with: the one supplied, else date.today().
EndingDate(ending_date, today) ==
    IF ending_date = None THEN today ELSE ending_date[1]

\* Which clock reading the call took: none when a date was supplied.
ClockRead(ending_date, today) ==
    IF ending_date = None THEN Some(today) ELSE None

generate_playlist_name ==
    /\ pc = "idle"
    /\ \E d \in Dates, supplied \in BOOLEAN, month_format \in MonthFormats :
        LET ending_date == IF supplied THEN Some(d) ELSE None IN
        /\ op' = "generate_playlist_name"
        /\ args' = [ending_date |-> ending_date,
                    month_format |-> month_format,
                    today |-> ClockRead(ending_date, d)]
        /\ calls' = <<>>
        /\ out' = <<>>
        /\ result' = PlaylistName(EndingDate(ending_date, d), month_format)
        /\ locals' = [playlist_date |-> PlaylistDate(EndingDate(ending_date, d))]
    /\ ncalls' = 1
    /\ pc' = "done"

-----------------------------------------------------------------------------
(* The Spotify client: what a remote call looks like in the call log *)

\* One remote call: the client method, its arguments, and the client's answer
\* (None when the request raised).
RemoteCall(fn, a, ret) == [fn |-> fn, args |-> a, ret |-> ret]

\* The error a failed request raises out of the client library.
RemoteError(fn) == Raised("SpotifyException", fn \o " failed")

\* Client handles a caller can pass: none, or a client object.
Clients == {None, Some("client")}

-----------------------------------------------------------------------------
(* check_if_playlist_exists *)

PlaylistNames == {"", "Jan 2023", "jan 2023", "January 2023"}

\* The lists of playlist items the client can answer with.
PlaylistItems ==
    UNION {[1..n -> [name : PlaylistNames]] : n \in 0..MaxPlaylists}

\* [playlist['name'] for playlist in items]
ExistingPlaylists(items) == [i \in 1..Len(items) |-> items[i].name]

\* A mutant of InList: the name is looked for inside each playlist's name.
InListAsSubstring(x, list) == \E i \in 1..Len(list) : Contains(list[i], x)

\* playlist_name in existing_playlists
InList(x, list) == \E i \in 1..Len(list) : list[i] = x

\* A mutant of NameCollision: the copies_allowed test is inverted.
NameCollisionInverted(playlist_name, copies_allowed) ==
    LET exist_output == playlist_name \o " found on Spotify!" IN
    IF ~copies_allowed
    THEN [out |-> <<"\nWarning: " \o exist_output \o "\nCreating another "
                    \o playlist_name \o " playlist.\n">>,
          result |-> Returned(None)]
    ELSE [out |-> <<>>, result |-> Raised("ValueError", exist_output)]

\* A mutant of NameCollision: the warning goes out as two prints.
NameCollisionTwoPrints(playlist_name, copies_allowed) ==
    LET exist_output == playlist_name \o " found on Spotify!" IN
    IF copies_allowed
    THEN [out |-> <<"\nWarning: " \o exist_output,
                    "Creating another " \o playlist_name \o " playlist.\n">>,
          result |-> Returned(None)]
    ELSE [out |-> <<>>, result |-> Raised("ValueError", exist_output)]

\* What the function does once the name is found among the playlists.
NameCollision(playlist_name, copies_allowed) ==
    LET exist_output == playlist_name \o " found on Spotify!" IN
    IF copies_allowed
    THEN [out |-> <<"\nWarning: " \o exist_output \o "\nCreating another "
                    \o playlist_name \o " playlist.\n">>,
          result |-> Returned(None)]
    ELSE [out |-> <<>>, result |-> Raised("ValueError", exist_output)]

\* The whole of check_if_playlist_exists; response is the client's answer to
\* current_user_playlists(): Some(items), or None when the request raised.
CheckIfPlaylistExists(playlist_name, spotify_data, copies_allowed, response) ==
    IF spotify_data = None
    THEN Outcome(<<>>, <<>>, Raised("ValueError", "No Spotify data supplied!"))
    ELSE
        LET call == RemoteCall("current_user_playlists", <<>>, response) IN
        IF response = None
        THEN Outcome(<<call>>, <<>>, RemoteError("current_user_playlists"))
        ELSE IF InList(playlist_name, ExistingPlaylists(response[1]))
             THEN LET c == NameCollision(playlist_name, copies_allowed) IN
                  Outcome(<<call>>, c.out, c.result)
             ELSE Outcome(<<call>>, <<>>, Returned(None))

check_if_playlist_exists ==
    /\ pc = "idle"
    /\ \E playlist_name \in PlaylistNames, spotify_data \in Clients,
          copies_allowed \in BOOLEAN,
          response \in {None} \cup {Some(items) : items \in PlaylistItems} :
        LET o == CheckIfPlaylistExists(playlist_name, spotify_data,
                                       copies_allowed, response) IN
        /\ op' = "check_if_playlist_exists"
        /\ args' = [playlist_name |-> playlist_name,
                    spotify_data |-> spotify_data,
                    copies_allowed |-> copies_allowed]
        /\ calls' = o.calls
        /\ out' = o.out
        /\ result' = o.result
    /\ locals' = [none |-> TRUE]
    /\ ncalls' = 1
    /\ pc' = "done"

\* check_if_playlist_exists called once more with the arguments of the call
\* before; the client answers afresh.
check_if_playlist_exists_again ==
    /\ pc = "done"
    /\ op = "check_if_playlist_exists"
    /\ ncalls < MaxCalls
    /\ \E response \in {None} \cup {Some(items) : items \in PlaylistItems} :
        LET o == CheckIfPlaylistExists(args.playlist_name, args.spotify_data,
                                       args.copies_allowed, response) IN
        /\ calls' = o.calls
        /\ out' = o.out
        /\ result' = o.result
    /\ ncalls' = ncalls + 1
    /\ UNCHANGED <<pc, op, args, locals>>

-----------------------------------------------------------------------------
(* get_most_played_tracks *)

TracksMin == 1
TracksMax == 50

\* The counts a caller can ask for: None, or an integer around the range.
TrackCounts ==
    {None} \cup {Some(n) : n \in ((0 - MaxExtra)..(TracksMax + MaxExtra))
                                   \cup {100, 101}}

TrackUri(i) == "spotify:track:" \o ToString(i)

\* The items of a top-tracks answer holding n tracks.
TopItems(n) == [i \in 1..n |-> [uri |-> TrackUri(i), name |-> "song"]]

\* A mutant of EffectiveLimit: the lower end of the range is not tested.
EffectiveLimitNoLower(tracks_total) ==
    IF tracks_total = None
    THEN [limit |-> TracksMax, replaced |-> TRUE]
    ELSE IF tracks_total[1] > TracksMax
         THEN [limit |-> TracksMax, replaced |-> TRUE]
         ELSE [limit |-> tracks_total[1], replaced |-> FALSE]

\* A mutant of EffectiveLimit: the upper end of the range is 100.
EffectiveLimitUpTo100(tracks_total) ==
    IF tracks_total = None
    THEN [limit |-> TracksMax, replaced |-> TRUE]
    ELSE IF tracks_total[1] < TracksMin \/ tracks_total[1] > 100
         THEN [limit |-> TracksMax, replaced |-> TRUE]
         ELSE [limit |-> tracks_total[1], replaced |-> FALSE]

\* The validation of tracks_total: the limit to request, and whether the
\* supplied value was replaced by the default.
EffectiveLimit(tracks_total) ==
    IF tracks_total = None
    THEN [limit |-> TracksMax, replaced |-> TRUE]
    ELSE IF tracks_total[1] < TracksMin \/ tracks_total[1] > TracksMax
         THEN [limit |-> TracksMax, replaced |-> TRUE]
         ELSE [limit |-> tracks_total[1], replaced |-> FALSE]

InvalidCountNotice(limit) ==
    "An invalid number of tracks has been requested!\n"
    \o "Switched to the default request of " \o ToString(limit) \o " tracks."

\* [track['uri'] for track in items]
TrackUris(items) == [i \in 1..Len(items) |-> items[i].uri]

\* The whole of get_most_played_tracks; response is the client's answer to
\* current_user_top_tracks(): Some(items), or None when the request raised.
GetMostPlayedTracks(spotify_data, tracks_total, response) ==
    IF spotify_data = None
    THEN Outcome(<<>>, <<>>, Raised("ValueError", "No Spotify data supplied!"))
    ELSE
        LET e == EffectiveLimit(tracks_total)
            notice == IF e.replaced THEN <<InvalidCountNotice(e.limit)>> ELSE <<>>
            call == RemoteCall("current_user_top_tracks",
                               [time_range |-> "short_term", limit |-> e.limit],
                               response)
        IN
        IF response = None
        THEN Outcome(<<call>>, notice, RemoteError("current_user_top_tracks"))
        ELSE LET most_played_tracks == TrackUris(response[1]) IN
             Outcome(<<call>>,
                     Append(notice, "A total of "
                                    \o ToString(Len(most_played_tracks))
                                    \o " songs have been selected."),
                     Returned(most_played_tracks))

get_most_played_tracks ==
    /\ pc = "idle"
    /\ \E spotify_data \in Clients, tracks_total \in TrackCounts,
          response \in {None} \cup {Some(TopItems(n)) : n \in 0..(TracksMax + MaxExtra)} :
        LET o == GetMostPlayedTracks(spotify_data, tracks_total, response) IN
        /\ op' = "get_most_played_tracks"
        /\ args' = [spotify_data |-> spotify_data, tracks_total |-> tracks_total]
        /\ calls' = o.calls
        /\ out' = o.out
        /\ result' = o.result
    /\ locals' = [none |-> TRUE]
    /\ ncalls' = 1
    /\ pc' = "done"

-----------------------------------------------------------------------------
(* generate_spotify_playlist *)

Uris == {"song_1", "song_2"}

\* The track lists a caller can pass: none, an empty list, or a list of
\* track references (repeats allowed).
TrackLists ==
    {None} \cup {Some(t) : t \in UNION {[1..n -> Uris] : n \in 0..MaxTracks}}

\* The ending dates tried here: the first of each month and the days that do
\* not exist in every month.
EdgeDates == {d \in Dates : d.day = 1 \/ d.day >= 28}

PlaylistIds == {"new_playlist_id", "other_playlist_id"}

\* Where a remote call of the client may fail.
FailPoints == {"none", "current_user", "user_playlist_create", "playlist_add_items"}

\* `not tracks`: no list, or an empty one.
NoTracks(tracks) == tracks = None \/ tracks[1] = <<>>

\* The start of the playlist's description.
DescriptionStart(tracks_total) ==
    IF tracks_total = 1
    THEN "My top most played song of "
    ELSE "My top " \o ToString(tracks_total) \o " most played songs of "

\* A mutant of NameForTitle: the title is always the long name.
NameForTitleAlwaysLong(month_format, name_short, name_long) ==
    IF month_format = "short"
    THEN [name |-> name_long, notice |-> "The month will be titled in short form."]
    ELSE [name |-> name_long, notice |-> "The month will be titled in long form."]

\* The title of the playlist and the notice printed about it.
NameForTitle(month_format, name_short, name_long) ==
    IF month_format = "short"
    THEN [name |-> name_short, notice |-> "The month will be titled in short form."]
    ELSE [name |-> name_long, notice |-> "The month will be titled in long form."]

\* The whole description of the playlist.
Description(tracks_total, name_long) ==
    DescriptionStart(tracks_total)
    \o name_long
    \o ". Auto-generated with AMMO. Visit "
    \o "https://github.com/JayMassey98"
    \o " for more information."

\* A mutant of AddItemsCall: the tracks are sent in reverse order.
AddItemsCallReversed(playlist_id, tracks, ret) ==
    RemoteCall("playlist_add_items",
               [playlist_id |-> playlist_id,
                items |-> [i \in 1..Len(tracks) |-> tracks[Len(tracks) + 1 - i]]],
               ret)

\* spotify_data.playlist_add_items(playlist_id=playlist_id, items=tracks)
AddItemsCall(playlist_id, tracks, ret) ==
    RemoteCall("playlist_add_items",
               [playlist_id |-> playlist_id, items |-> tracks], ret)

\* The remote part of generate_spotify_playlist: identity lookup, creation,
\* population. failAt is the call the client fails at; id is the identifier
\* the service gives the new playlist.
PushPlaylist(tracks, title, name_long, playlist_public, description, failAt, id) ==
    LET lookup == RemoteCall("current_user", <<>>,
                             IF failAt = "current_user" THEN None
                             ELSE Some([id |-> "user_id"]))
        create == RemoteCall("user_playlist_create",
                             [user |-> "user_id", name |-> title.name,
                              public |-> playlist_public,
                              description |-> description],
                             IF failAt = "user_playlist_create" THEN None
                             ELSE Some([id |-> id]))
        add == AddItemsCall(id, tracks,
                            IF failAt = "playlist_add_items" THEN None
                            ELSE Some(None))
        generating == "Generating a playlist for " \o name_long \o "."
    IN
    IF failAt = "current_user"
    THEN Outcome(<<lookup>>, <<title.notice>>, RemoteError("current_user"))
    ELSE IF failAt = "user_playlist_create"
    THEN Outcome(<<lookup, create>>, <<title.notice>>,
                 RemoteError("user_playlist_create"))
    ELSE IF failAt = "playlist_add_items"
    THEN Outcome(<<lookup, create, add>>, <<title.notice, generating>>,
                 RemoteError("playlist_add_items"))
    ELSE Outcome(<<lookup, create, add>>,
                 <<title.notice, generating,
                   "\nPlaylist successfully pushed to Spotify:",
                   "spotify:playlist:" \o id>>,
                 Returned(None))

\* generate_spotify_playlist from the point where both arguments are present.
BuildPlaylist(tracks, ending_date, month_format, playlist_public, failAt, id) ==
    LET short == PlaylistName(ending_date, "short")
        long == PlaylistName(ending_date, "long")
    IN
    IF short.kind = "raise" THEN Outcome(<<>>, <<>>, short)
    ELSE IF long.kind = "raise" THEN Outcome(<<>>, <<>>, long)
    ELSE PushPlaylist(tracks,
                      NameForTitle(month_format, short.value, long.value),
                      long.value, playlist_public,
                      Description(Len(tracks), long.value), failAt, id)

\* A mutant of GenerateSpotifyPlaylist: the client is tested before the tracks.
GenerateSpotifyPlaylistClientFirst(tracks, spotify_data, ending_date, today, month_format, playlist_public, failAt, id) ==
    IF spotify_data = None
    THEN Outcome(<<>>, <<>>, Raised("ValueError", "No Spotify data supplied!"))
    ELSE IF NoTracks(tracks)
    THEN Outcome(<<>>, <<>>, Raised("ValueError", "No list of tracks supplied!"))
    ELSE BuildPlaylist(tracks[1], EndingDate(ending_date, today), month_format,
                       playlist_public, failAt, id)

\* The whole of generate_spotify_playlist.
GenerateSpotifyPlaylist(tracks, spotify_data, ending_date, today, month_format, playlist_public, failAt, id) ==
    IF NoTracks(tracks)
    THEN Outcome(<<>>, <<>>, Raised("ValueError", "No list of tracks supplied!"))
    ELSE IF spotify_data = None
    THEN Outcome(<<>>, <<>>, Raised("ValueError", "No Spotify data supplied!"))
    ELSE BuildPlaylist(tracks[1], EndingDate(ending_date, today), month_format,
                       playlist_public, failAt, id)

generate_spotify_playlist ==
    /\ pc = "idle"
    /\ \E tracks \in TrackLists, spotify_data \in Clients, d \in EdgeDates,
          supplied \in BOOLEAN, month_format \in MonthFormats,
          playlist_public \in BOOLEAN, failAt \in FailPoints, id \in PlaylistIds :
        LET ending_date == IF supplied THEN Some(d) ELSE None
            o == GenerateSpotifyPlaylist(tracks, spotify_data, ending_date, d,
                                         month_format, playlist_public, failAt, id)
        IN
        /\ op' = "generate_spotify_playlist"
        /\ args' = [tracks |-> tracks,
                    spotify_data |-> spotify_data,
                    ending_date |-> ending_date,
                    month_format |-> month_format,
                    playlist_public |-> playlist_public,
                    today |-> IF NoTracks(tracks) \/ spotify_data = None
                              THEN None ELSE ClockRead(ending_date, d)]
        /\ calls' = o.calls
        /\ out' = o.out
        /\ result' = o.result
    /\ locals' = [none |-> TRUE]
    /\ ncalls' = 1
    /\ pc' = "done"

-----------------------------------------------------------------------------
(* check_connection *)

Urls == {"https://api.spotify.com", "error"}

\* The status codes a response can carry.
StatusValues == MinStatus..MaxStatus

\* The table of known status codes: a success mark, or a description.
status_codes ==
    [c \in {200, 201, 204} |-> [success |-> TRUE, text |-> ""]]
    @@ (400 :> [success |-> FALSE, text |-> "Bad Request: The request could not be understood or was missing required parameters."])
    @@ (401 :> [success |-> FALSE, text |-> "Unauthorized: Authentication failed or user does not have permissions for the requested operation."])
    @@ (403 :> [success |-> FALSE, text |-> "Forbidden: Authentication succeeded, but the authenticated user does not have access to the requested resource."])
    @@ (404 :> [success |-> FALSE, text |-> "Not Found: The requested resource could not be found."])
    @@ (429 :> [success |-> FALSE, text |-> "Too Many Requests: The user has sent too many requests in a given amount of time."])
    @@ (500 :> [success |-> FALSE, text |-> "Internal Server Error: An error occurred on the server."])
    @@ (502 :> [success |-> FALSE, text |-> "Bad Gateway: The server was acting as a gateway or proxy and received an invalid response from the upstream server."])
    @@ (503 :> [success |-> FALSE, text |-> "Service Unavailable: The server is currently unavailable (because it is overloaded or down for maintenance)."])

\* status_codes.get(code): None for a code the table does not hold.
StatusOf(code) ==
    IF code \in DOMAIN status_codes THEN Some(status_codes[code]) ELSE None

\* The whole of check_connection; response is the answer to requests.get(url):
\* Some(status code), or None when the request raised RequestException.
CheckConnection(url, dry_run, response) ==
    IF dry_run
    THEN Outcome(<<>>, <<"Secured a " \o url \o " link.">>, Returned(None))
    ELSE
        LET call == RemoteCall("requests.get", [url |-> url], response) IN
        IF response = None
        THEN Outcome(<<call>>,
                     <<"Error: An unknown error occurred when attempting to reach "
                       \o url \o ".">>,
                     Exited(1))
        ELSE LET status == StatusOf(response[1]) IN
             IF status # None /\ status[1].success
             THEN Outcome(<<call>>, <<"Secured a " \o url \o " link.">>,
                          Returned(None))
             ELSE IF status # None
                  THEN Outcome(<<call>>, <<status[1].text>>, Exited(1))
                  ELSE Outcome(<<call>>, <<>>, Exited(1))

check_connection ==
    /\ pc = "idle"
    /\ \E url \in Urls, dry_run \in BOOLEAN,
          response \in {None} \cup {Some(c) : c \in StatusValues} :
        LET o == CheckConnection(url, dry_run, response) IN
        /\ op' = "check_connection"
        /\ args' = [url |-> url, dry_run |-> dry_run]
        /\ calls' = o.calls
        /\ out' = o.out
        /\ result' = o.result
    /\ locals' = [none |-> TRUE]
    /\ ncalls' = 1
    /\ pc' = "done"

-----------------------------------------------------------------------------
(* main *)

\* The parsed command line: --dry_run, --month_format, --copies_allowed,
\* --tracks_total (an out-of-range count, or the default) and --playlist_public.
CliArgs ==
    [dry_run : BOOLEAN, month_format : MonthFormats, copies_allowed : BOOLEAN,
     tracks_total : {Some(0), Some(TracksMax)}, playlist_public : BOOLEAN]

\* The answers to the connection check tried in a run: a network exception, a
\* success, a status of the table and a status outside it.
MainResponses == {None, Some(200), Some(404), Some(418)}

\* The dates the clock shows at the start of a run: the first and the last
\* day of each month.
MainDates ==
    {d \in Dates : d.day = 1 \/ d.day = DaysInMonth(d.year, d.month)}

\* The day after d.
NextDay(d) ==
    IF d.day < DaysInMonth(d.year, d.month)
    THEN [year |-> d.year, month |-> d.month, day |-> d.day + 1]
    ELSE IF d.month < 12
         THEN [year |-> d.year, month |-> d.month + 1, day |-> 1]
         ELSE [year |-> d.year + 1, month |-> 1, day |-> 1]

\* mock_SpotifyClient: the answers of the client of a dry run.
MockPlaylists == <<[name |-> "existing_playlist"]>>
MockTopItems(limit) == [i \in 1..limit |-> [uri |-> "track_id"]]
MockPlaylistId == "mock_playlist_uri_code"

\* The answers to current_user_playlists() in a run that checks `name`: the
\* mock's on a dry run, else a failure or any list of playlists named `name`
\* or otherwise.
PlaylistAnswers(dry_run, name) ==
    IF dry_run
    THEN {Some(MockPlaylists)}
    ELSE {None} \cup
         {Some(items) : items \in
             UNION {[1..n -> [name : {name, "existing_playlist"}]] : n \in 0..MaxPlaylists}}

\* The answers to current_user_top_tracks(limit=limit).
TopAnswers(dry_run, limit) ==
    IF dry_run
    THEN {Some(MockTopItems(limit))}
    ELSE {None} \cup {Some(TopItems(n)) : n \in 0..MaxTracks}

\* The effects of two steps run one after the other.
Then(o1, o2) == Outcome(o1.calls \o o2.calls, o1.out \o o2.out, o2.result)

\* A mutant of Halts: an exception is swallowed, only an exit stops the run.
HaltsOnlyOnExit(o) == o.result.kind = "exit"

\* A step that raised or exited ends the run: main catches nothing.
Halts(o) == o.result.kind # "return"

\* The locals of a run that ended before a playlist name was generated.
NoPlaylistName == [playlist_name |-> None, clock |-> <<>>]

\* The run ends: with the effects o, having taken the locals lcl.
MainEnds(cli, lcl, o) ==
    /\ op' = "main"
    /\ args' = cli
    /\ calls' = o.calls
    /\ out' = o.out
    /\ result' = o.result
    /\ locals' = lcl
    /\ ncalls' = 1
    /\ pc' = "done"

\* main from the generated playlist name on: the existence check, the track
\* request and the playlist generation, which reads the clock again.
MainWithName(cli, o1, today1, name) ==
    \E playlists \in PlaylistAnswers(cli.dry_run, name) :
        LET o2 == Then(o1, CheckIfPlaylistExists(name, Some("client"),
                                                 cli.copies_allowed, playlists))
            checked == [playlist_name |-> Some(name), clock |-> <<today1>>]
        IN
        IF Halts(o2) THEN MainEnds(cli, checked, o2)
        ELSE
        \E top \in TopAnswers(cli.dry_run, EffectiveLimit(cli.tracks_total).limit) :
            LET t == GetMostPlayedTracks(Some("client"), cli.tracks_total, top)
                o3 == Then(o2, t)
                most_played_tracks ==
                    IF t.result.kind = "return" THEN Some(t.result.value) ELSE None
            IN
            IF Halts(o3) THEN MainEnds(cli, checked, o3)
            ELSE
            \E today2 \in {today1, NextDay(today1)},
               failAt \in (IF cli.dry_run THEN {"none"} ELSE FailPoints) :
                LET g == GenerateSpotifyPlaylist(
                             most_played_tracks, Some("client"), None, today2,
                             cli.month_format, cli.playlist_public, failAt,
                             IF cli.dry_run THEN MockPlaylistId ELSE "new_playlist_id")
                IN
                MainEnds(cli,
                         [playlist_name |-> Some(name),
                          clock |-> IF NoTracks(most_played_tracks)
                                    THEN <<today1>> ELSE <<today1, today2>>],
                         Then(o3, g))

main ==
    /\ pc = "idle"
    /\ \E cli \in CliArgs :
       \E response \in (IF cli.dry_run THEN {None} ELSE MainResponses) :
        LET banner == Outcome(<<>>, <<"Automated Monthly Music Organiser (AMMO)\n">>,
                              Returned(None))
            o1 == Then(banner, CheckConnection("https://api.spotify.com",
                                               cli.dry_run, response))
        IN
        IF Halts(o1) THEN MainEnds(cli, NoPlaylistName, o1)
        ELSE
        \E today1 \in MainDates :
            LET n == PlaylistName(today1, cli.month_format) IN
            IF n.kind # "return"
            THEN MainEnds(cli, [playlist_name |-> None, clock |-> <<today1>>],
                          Then(o1, Outcome(<<>>, <<>>, n)))
            ELSE MainWithName(cli, o1, today1, n.value)

-----------------------------------------------------------------------------

Init ==
    /\ pc = "idle"
    /\ op = "none"
    /\ args = [none |-> TRUE]
    /\ calls = <<>>
    /\ out = <<>>
    /\ result = [kind |-> "none"]
    /\ locals = [none |-> TRUE]
    /\ ncalls = 0

Next ==
    \/ generate_playlist_name
    \/ check_if_playlist_exists
    \/ check_if_playlist_exists_again
    \/ get_most_played_tracks
    \/ generate_spotify_playlist
    \/ check_connection
    \/ main

Spec == Init /\ [][Next]_vars

-----------------------------------------------------------------------------
(* Properties *)

\* The reference date of a call that takes an ending date: the date supplied,
\* else the clock reading the call took.
RefDate == IF args.ending_date = None THEN args.today[1] ELSE args.ending_date[1]

\* The calendar month before the month of date d, as year and month number.
MonthBefore(d) ==
    IF d.month > 1
    THEN [year |-> d.year, month |-> d.month - 1]
    ELSE [year |-> d.year - 1, month |-> 12]

\* The two renderings of a month: "Jan 2023" and "January 2023".
ShortForm(ym) == MonthAbbr[ym.month] \o " " \o ToString(ym.year)
LongForm(ym) == MonthFull[ym.month] \o " " \o ToString(ym.year)

\* The client answered the playlist request with a list that holds an item
\* named exactly as the requested name.
NameCollides ==
    /\ op = "check_if_playlist_exists"
    /\ Len(calls) = 1
    /\ calls[1].ret # None
    /\ \E i \in 1..Len(calls[1].ret[1]) :
          calls[1].ret[1][i].name = args.playlist_name

\* C1: whenever generate_playlist_name returns a name, the name denotes the
\* calendar month immediately before the reference date's month: same year and
\* month-1 when the reference month is above 1, month 12 of year-1 when it is 1.
C1_NameIsPreviousMonth ==
    (op = "generate_playlist_name" /\ result.kind = "return") =>
        LET ym == MonthBefore(RefDate) IN
        /\ result.value \in {ShortForm(ym), LongForm(ym)}
        /\ (RefDate.month > 1 =>
              /\ StartsWith(result.value, MonthAbbr[RefDate.month - 1])
              /\ EndsWith(result.value, " " \o ToString(RefDate.year)))
        /\ (RefDate.month = 1 =>
              /\ StartsWith(result.value, "Dec")
              /\ EndsWith(result.value, " " \o ToString(RefDate.year - 1)))

\* C1 witness: a January reference date gave December of the year before.
C1_Witness ==
    /\ op = "generate_playlist_name"
    /\ result.kind = "return"
    /\ RefDate.month = 1
    /\ result.value = "Dec " \o ToString(RefDate.year - 1)

\* C2: generate_playlist_name is total: for every valid calendar date it
\* returns a name and never ends in an error.
C2_NameForEveryDate ==
    op = "generate_playlist_name" => result.kind = "return"

\* C3: with an exact-name collision and duplicates disallowed,
\* check_if_playlist_exists raises ValueError with a message that contains the
\* colliding name, and does not return normally.
C3_CollisionRaisesConflict ==
    (NameCollides /\ ~args.copies_allowed) =>
        /\ result.kind = "raise"
        /\ result.exc = "ValueError"
        /\ Contains(result.msg, args.playlist_name)

\* C3 witness: "Jan 2023" was requested, found, and refused.
C3_Witness ==
    /\ NameCollides
    /\ ~args.copies_allowed
    /\ args.playlist_name = "Jan 2023"
    /\ result.kind = "raise"

\* C4: with an exact-name collision and duplicates allowed,
\* check_if_playlist_exists returns normally and prints exactly one notice,
\* which contains the colliding name.
C4_CollisionAllowedOneNotice ==
    (NameCollides /\ args.copies_allowed) =>
        /\ result.kind = "return"
        /\ Len(out) = 1
        /\ Contains(out[1], args.playlist_name)

\* C4 witness: two playlists already carry the requested name, and the call
\* returned.
C4_Witness ==
    /\ NameCollides
    /\ args.copies_allowed
    /\ args.playlist_name = "Jan 2023"
    /\ Len(calls[1].ret[1]) = 2
    /\ \A i \in 1..2 : calls[1].ret[1][i].name = "Jan 2023"
    /\ result.kind = "return"

\* The notice get_most_played_tracks prints about a replaced count is in out.
InvalidCountNoticed ==
    \E i \in 1..Len(out) : StartsWith(out[i], "An invalid number of tracks")

\* C5: given a client, get_most_played_tracks issues one top-tracks request;
\* for a count outside [1, 50] (0, negative, above 50, None) its limit is 50
\* and a notice is printed; for a count inside [1, 50] its limit is that count
\* and no such notice is printed.
C5_LimitIsCountOrFifty ==
    (op = "get_most_played_tracks" /\ args.spotify_data # None) =>
        LET t == args.tracks_total
            inside == t # None /\ t[1] >= 1 /\ t[1] <= 50
        IN
        /\ Len(calls) = 1
        /\ calls[1].fn = "current_user_top_tracks"
        /\ (inside => calls[1].args.limit = t[1] /\ ~InvalidCountNoticed)
        /\ (~inside => calls[1].args.limit = 50 /\ InvalidCountNoticed)

\* C5 witness: a count of None was replaced by 50, with the notice.
C5_Witness ==
    /\ op = "get_most_played_tracks"
    /\ args.spotify_data # None
    /\ args.tracks_total = None
    /\ calls[1].args.limit = 50
    /\ InvalidCountNoticed
    /\ result.kind = "return"

\* C6 as claimed: get_most_played_tracks never returns more than 50 track
\* references, whatever list of items the service returns.
C6_NeverMoreThanFifty ==
    (op = "get_most_played_tracks" /\ result.kind = "return") =>
        Len(result.value) <= 50

\* C6 as amended: get_most_played_tracks returns one track reference per item
\* the service returned, so never more than 50 when the service returned no
\* more items than the limit requested of it.
C6_FiftyWhenLimitHonoured ==
    (op = "get_most_played_tracks" /\ result.kind = "return") =>
        LET items == calls[1].ret[1] IN
        /\ Len(result.value) = Len(items)
        /\ (Len(items) <= calls[1].args.limit => Len(result.value) <= 50)

\* C6 witness: 101 tracks were asked for, and the 50 items the service sent
\* for the limit of 50 came back.
C6_Witness ==
    /\ op = "get_most_played_tracks"
    /\ result.kind = "return"
    /\ args.tracks_total = Some(101)
    /\ Len(calls[1].ret[1]) = calls[1].args.limit
    /\ Len(result.value) = 50

\* C7: generate_spotify_playlist with no track list or an empty one raises
\* ValueError 'No list of tracks supplied!', with or without a client, and
\* issues no remote call.
C7_NoTracksNoCalls ==
    (op = "generate_spotify_playlist"
     /\ (args.tracks = None \/ args.tracks[1] = <<>>)) =>
        /\ result = Raised("ValueError", "No list of tracks supplied!")
        /\ calls = <<>>

\* C7 witness: an empty list and no client ended in the track-list error.
C7_Witness ==
    /\ op = "generate_spotify_playlist"
    /\ args.tracks = Some(<<>>)
    /\ args.spotify_data = None
    /\ result.kind = "raise"

\* The positions of the calls of client method fn in the call log.
CallsOf(fn) == {i \in 1..Len(calls) : calls[i].fn = fn}

\* C8: a successful generate_spotify_playlist issued exactly one create call
\* and exactly one add-tracks call, the create call first, and the add call
\* names the identifier the create call returned and carries the supplied
\* tracks in the supplied order.
C8_CreateThenAddAll ==
    (op = "generate_spotify_playlist" /\ result.kind = "return") =>
        /\ Cardinality(CallsOf("user_playlist_create")) = 1
        /\ Cardinality(CallsOf("playlist_add_items")) = 1
        /\ \A i \in CallsOf("user_playlist_create"), j \in CallsOf("playlist_add_items") :
              /\ i < j
              /\ calls[j].args.playlist_id = calls[i].ret[1].id
              /\ calls[j].args.items = args.tracks[1]

\* C8 witness: three tracks, the first and last different, were pushed.
C8_Witness ==
    /\ op = "generate_spotify_playlist"
    /\ result.kind = "return"
    /\ Len(args.tracks[1]) = 3
    /\ args.tracks[1][1] # args.tracks[1][3]
    /\ Len(calls) = 3

\* C9: check_connection, when not simulating, returns only for a response of
\* status 200, 201 or 204; for every other status and for a network exception
\* it prints a diagnostic and exits with status 1.
C9_DiagnosticThenExit ==
    (op = "check_connection" /\ ~args.dry_run) =>
        LET response == calls[1].ret IN
        IF response # None /\ response[1] \in {200, 201, 204}
        THEN result.kind = "return"
        ELSE result = Exited(1) /\ out # <<>>

\* C10: in the create call of generate_spotify_playlist the title is the short
\* name when the format is 'short' and the long name otherwise; the description
\* holds the long name whatever the format, and begins 'My top most played
\* song of ' for one track and 'My top <N> most played songs of ' for N tracks.
C10_TitleAndDescription ==
    (op = "generate_spotify_playlist" /\ Len(calls) >= 2) =>
        LET create == calls[2].args
            ym == MonthBefore(RefDate)
            n == Len(args.tracks[1])
        IN
        /\ calls[2].fn = "user_playlist_create"
        /\ create.name = (IF args.month_format = "short"
                          THEN ShortForm(ym) ELSE LongForm(ym))
        /\ Contains(create.description, LongForm(ym))
        /\ (n = 1 => StartsWith(create.description, "My top most played song of "))
        /\ (n # 1 => StartsWith(create.description,
                                "My top " \o ToString(n) \o " most played songs of "))

\* C10 witness: one track under a format that is neither 'short' nor 'long':
\* the title is the long name.
C10_Witness ==
    /\ op = "generate_spotify_playlist"
    /\ Len(calls) >= 2
    /\ args.month_format = "medium"
    /\ Len(args.tracks[1]) = 1
    /\ calls[2].args.name = LongForm(MonthBefore(RefDate))
    /\ calls[2].args.name # ShortForm(MonthBefore(RefDate))

\* C11: when the requested name is among the client's playlists and duplicates
\* are not allowed, the message of the raised error is exactly
\* 'A playlist called <name> already exists!'.
C11_ExactConflictMessage ==
    (NameCollides /\ ~args.copies_allowed) =>
        /\ result.kind = "raise"
        /\ result.msg = "A playlist called " \o args.playlist_name \o " already exists!"

\* C12: the period date computed inside generate_playlist_name, whenever one is
\* computed, is day 1 of a month strictly before the reference date's month.
C12_PeriodIsFirstOfEarlierMonth ==
    (op = "generate_playlist_name" /\ locals.playlist_date # None) =>
        /\ locals.playlist_date[1].day = 1
        /\ \/ locals.playlist_date[1].year < RefDate.year
           \/ /\ locals.playlist_date[1].year = RefDate.year
              /\ locals.playlist_date[1].month < RefDate.month

\* The client answered the playlist request with a list in which no item is
\* named as the requested name.
NoNameCollides ==
    /\ op = "check_if_playlist_exists"
    /\ Len(calls) = 1
    /\ calls[1].ret # None
    /\ \A i \in 1..Len(calls[1].ret[1]) :
          calls[1].ret[1][i].name # args.playlist_name

\* C13: when no playlist the client returns has the requested name, every call
\* of check_if_playlist_exists, the first and each repeated one, returns
\* normally, prints nothing, and issues no remote call but the read of the
\* user's playlists.
C13_NoCollisionNoEffect ==
    NoNameCollides =>
        /\ result = Returned(None)
        /\ out = <<>>
        /\ \A i \in 1..Len(calls) : calls[i].fn = "current_user_playlists"

\* C13 witness: a repeated call for "Jan 2023" against a list that holds only
\* "jan 2023" returned.
C13_Witness ==
    /\ NoNameCollides
    /\ ncalls >= 2
    /\ args.playlist_name = "Jan 2023"
    /\ Len(calls[1].ret[1]) >= 1
    /\ \A i \in 1..Len(calls[1].ret[1]) : calls[1].ret[1][i].name = "jan 2023"
    /\ result.kind = "return"

\* In a run of main a playlist name was generated, and the client answered
\* the existence check with a list that holds an item of that name.
MainNameFound ==
    /\ op = "main"
    /\ locals.playlist_name # None
    /\ \E i \in CallsOf("current_user_playlists") :
          /\ calls[i].ret # None
          /\ \E j \in 1..Len(calls[i].ret[1]) :
                calls[i].ret[1][j].name = locals.playlist_name[1]

\* C14: a run of main with duplicates disallowed, in which the list returned
\* to the existence check holds the generated name, ends at the existence
\* check: it issues no top-tracks request, no create call and no add call.
C14_ConflictEndsRun ==
    (MainNameFound /\ ~args.copies_allowed) =>
        /\ result.kind = "raise"
        /\ calls[Len(calls)].fn = "current_user_playlists"
        /\ CallsOf("current_user_top_tracks") = {}
        /\ CallsOf("user_playlist_create") = {}
        /\ CallsOf("playlist_add_items") = {}

\* C14 witness: a run that reached Spotify found its name twice among the
\* playlists and ended with the conflict error.
C14_Witness ==
    /\ MainNameFound
    /\ ~args.copies_allowed
    /\ ~args.dry_run
    /\ \E i \in CallsOf("current_user_playlists") : Len(calls[i].ret[1]) = 2
    /\ result.kind = "raise"
    /\ result.exc = "ValueError"

\* C15: in every run of main that reaches the create call, the title sent in
\* the create call is the name that was passed to the existence check, for
\* every month format and also when the date advances between the two reads
\* of the clock.
C15_TitleIsCheckedName ==
    op = "main" =>
        \A i \in CallsOf("user_playlist_create") :
            calls[i].args.name = locals.playlist_name[1]

====
